---- MODULE Spec2Model ----
(***************************************************************************)
(* Model of the tool-discovery pipeline: the HTTP endpoint of              *)
(* api_server.py, the research_worker fan-out of                           *)
(* orchestrator/orchestrator.py and the search clients of orchestrator/,   *)
(* worker/ and mcp_agents/.                                                *)
(*                                                                         *)
(* Text is a sequence of tokens.  A token is a punctuation mark P(c), a    *)
(* run of plain characters W(w), or a JSON string literal S(text) whose    *)
(* content is itself a text (the quoting and escaping json.dumps applies   *)
(* is what the S wrapper stands for).                                      *)
(***************************************************************************)
EXTENDS Integers, Sequences, FiniteSets, TLC

VARIABLES
    startup_pc,    \* position of startup_event: "agent", "orchestrator", "serving"
    app_state,     \* app.state: [agent, orchestrator]
    startup_log,   \* what startup_event printed about each step
    createCalls,   \* number of create_orchestrator() invocations so far
    requests,      \* HTTP requests: id -> [pc, method, path, query, handler,
                   \* question, run, needed, outcome, response]
    batch_pc,      \* orchestrator run: "search", "dispatch", "collect", "done", "failed"
    discovered,    \* tool names the search stage found, in order
    invocations,   \* research_worker invocations started, in order
    calls,         \* research_worker call i: [pc, tool_name, research_focus, outcome, result]
    collected,     \* tool outputs handed back to the orchestrator, one per call
    env,           \* process environment and installation: [LINKUP_API_KEY,
                   \* ANTHROPIC_API_KEY, CLAUDE_MODEL_NAME, LITELLM_AVAILABLE]
    search_call,   \* the search operation being executed
    tasks,         \* deep_research_tool's category searches
    sent           \* requests sent to the search provider

vars == <<startup_pc, app_state, startup_log, createCalls, requests,
          batch_pc, discovered, invocations, calls, collected,
          env, search_call, tasks, sent>>

apiVars == <<startup_pc, app_state, startup_log, createCalls, requests>>
batchVars == <<batch_pc, discovered, invocations, calls, collected>>
searchVars == <<env, search_call, tasks, sent>>

----------------------------------------------------------------------------
(* Bounds *)

MaxRequests == 2
MaxQLen == 2
MaxTools == 2

----------------------------------------------------------------------------
(* Text *)

P(c) == [kind |-> "p", name |-> c, body |-> <<>>]
W(w) == [kind |-> "w", name |-> w, body |-> <<>>]
S(text) == [kind |-> "s", name |-> "", body |-> text]

None == "None"

RECURSIVE SeqsUpTo(_, _)
SeqsUpTo(A, n) ==
    IF n = 0 THEN {<<>>}
    ELSE LET shorter == SeqsUpTo(A, n - 1)
         IN shorter \cup {Append(s, a) : s \in shorter, a \in A}

\* str.strip(): whitespace removed from both ends
IsSpace(c) == c = " "

RECURSIVE lstrip(_)
lstrip(s) ==
    IF s = <<>> THEN s
    ELSE IF IsSpace(Head(s)) THEN lstrip(Tail(s)) ELSE s

RECURSIVE rstrip(_)
rstrip(s) ==
    IF s = <<>> THEN s
    ELSE IF IsSpace(s[Len(s)]) THEN rstrip(SubSeq(s, 1, Len(s) - 1)) ELSE s

strip(s) == rstrip(lstrip(s))

----------------------------------------------------------------------------
(* JSON values and json.dumps *)

JNull == [t |-> "null", s |-> <<>>, kv |-> <<>>]
JStr(text) == [t |-> "str", s |-> text, kv |-> <<>>]
JArr(items) == [t |-> "arr", s |-> <<>>, kv |-> [i \in DOMAIN items |-> [k |-> "", v |-> items[i]]]]
JObj(members) == [t |-> "obj", s |-> <<>>, kv |-> members]
KV(key, value) == [k |-> key, v |-> value]

RECURSIVE json_dumps(_)
RECURSIVE dumps_members(_, _)

\* members joined by commas; an object writes "key": before each value
dumps_members(kv, withKeys) ==
    IF kv = <<>> THEN <<>>
    ELSE (IF withKeys THEN <<S(<<W(kv[1].k)>>), P(":")>> ELSE <<>>)
         \o json_dumps(kv[1].v)
         \o (IF Len(kv) > 1 THEN <<P(",")>> ELSE <<>>)
         \o dumps_members(Tail(kv), withKeys)

json_dumps(v) ==
    CASE v.t = "null" -> <<W("null")>>
      [] v.t = "str" -> <<S(v.s)>>
      [] v.t = "arr" -> <<P("[")>> \o dumps_members(v.kv, FALSE) \o <<P("]")>>
      [] v.t = "obj" -> <<P("{")>> \o dumps_members(v.kv, TRUE) \o <<P("}")>>

\* nesting depth of position p in a JSON text
Depth(text, p) ==
    Cardinality({q \in 1..(p - 1) : text[q] \in {P("{"), P("[")}})
    - Cardinality({q \in 1..(p - 1) : text[q] \in {P("}"), P("]")}})

IsJsonObject(text) ==
    /\ Len(text) >= 2
    /\ text[1] = P("{")
    /\ text[Len(text)] = P("}")
    /\ \A p \in 2..(Len(text) - 1) : Depth(text, p) >= 1

\* the keys of a JSON object text, read off its top-level "key": positions
ObjectKeys(text) ==
    IF ~IsJsonObject(text) THEN {}
    ELSE {text[p].body : p \in {q \in 2..(Len(text) - 2) :
                                    /\ text[q].kind = "s"
                                    /\ text[q + 1] = P(":")
                                    /\ Depth(text, q) = 1}}

HasKey(text, key) == <<W(key)>> \in ObjectKeys(text)

\* the value text that follows a top-level key of an object of string values
StringAt(text, key) ==
    LET q == CHOOSE q \in 2..(Len(text) - 2) :
                 /\ text[q] = S(<<W(key)>>)
                 /\ text[q + 1] = P(":")
                 /\ Depth(text, q) = 1
    IN text[q + 2].body

----------------------------------------------------------------------------
(* api_server.py *)

Exc(type, msg) == [type |-> type, msg |-> msg]
str(e) == e.msg

Response(status, content) == [status |-> status, content |-> content]
NoResponse == Response(0, JNull)
HTTPException(status_code, detail) == Response(status_code, detail)

\* what FastAPI puts on the wire for a response
ResponseBody(resp) ==
    IF resp.status = 200 THEN json_dumps(resp.content)
    ELSE json_dumps(JObj(<<KV("detail", resp.content)>>))

QChars == {" ", "a"}
Questions == SeqsUpTo(QChars, MaxQLen)

max_turns == 25

\* Agent(...) in create_orchestrator either constructs the agent or raises
CreateOutcomes == {"created", "raise"}
\* get_configured_agent: the placeholder returns None; an imported one may
\* return an agent or raise
AgentOutcomes == {"agent", "none", "raise"}

create_orchestrator(outcome) ==
    IF outcome = "created"
    THEN [raised |-> FALSE, value |-> "Orchestrator"]
    ELSE [raised |-> TRUE, value |-> None]

get_configured_agent(outcome) ==
    CASE outcome = "agent" -> [raised |-> FALSE, value |-> "Agent"]
      [] outcome = "none" -> [raised |-> FALSE, value |-> None]
      [] outcome = "raise" -> [raised |-> TRUE, value |-> None]

\* startup_event, first try block
startup_agent_nocatch(state, r) ==
    IF r.raised THEN [halted |-> TRUE, agent |-> state.agent, log |-> ""]
    ELSE IF r.value # None
         THEN [halted |-> FALSE, agent |-> r.value, log |-> "configured"]
         ELSE [halted |-> FALSE, agent |-> state.agent, log |-> "not configured"]

startup_agent(state, r) ==
    IF r.raised THEN [halted |-> FALSE, agent |-> None, log |-> "error"]
    ELSE IF r.value # None
         THEN [halted |-> FALSE, agent |-> r.value, log |-> "configured"]
         ELSE [halted |-> FALSE, agent |-> state.agent, log |-> "not configured"]

\* the second try block with an except clause that keeps what went wrong
startup_orchestrator_keeps_error(state, r) ==
    IF r.raised THEN [halted |-> FALSE, orchestrator |-> "Exception", log |-> "error"]
    ELSE [halted |-> FALSE, orchestrator |-> r.value,
          log |-> IF r.value # None THEN "created" ELSE "returned None"]

\* startup_event, second try block
startup_orchestrator(state, r) ==
    IF r.raised THEN [halted |-> FALSE, orchestrator |-> None, log |-> "error"]
    ELSE IF r.value # None
         THEN [halted |-> FALSE, orchestrator |-> r.value, log |-> "created"]
         ELSE [halted |-> FALSE, orchestrator |-> r.value, log |-> "returned None"]

StartupAgent(outcome) ==
    /\ startup_pc = "agent"
    /\ LET res == startup_agent(app_state, get_configured_agent(outcome))
       IN /\ startup_pc' = IF res.halted THEN "halted" ELSE "orchestrator"
          /\ app_state' = [app_state EXCEPT !.agent = res.agent]
          /\ startup_log' = [startup_log EXCEPT !.agent = res.log]
    /\ UNCHANGED <<createCalls, requests>>
    /\ UNCHANGED <<batchVars, searchVars>>

StartupOrchestrator(outcome) ==
    /\ startup_pc = "orchestrator"
    /\ LET res == startup_orchestrator(app_state, create_orchestrator(outcome))
       IN /\ startup_pc' = IF res.halted THEN "halted" ELSE "serving"
          /\ app_state' = [app_state EXCEPT !.orchestrator = res.orchestrator]
          /\ startup_log' = [startup_log EXCEPT !.orchestrator = res.log]
    /\ createCalls' = createCalls + 1
    /\ UNCHANGED requests
    /\ UNCHANGED <<batchVars, searchVars>>

\* `not question or not question.strip()`
question_is_blank_nostrip(question) == question = <<>>

question_is_blank(question) == question = <<>> \/ strip(question) = <<>>

\* run_search_agent up to the await: the response raised by validation, or
\* NoResponse when the run is to be started
validate_503_first(question, orchestrator) ==
    IF orchestrator = None
    THEN HTTPException(503, JObj(<<KV("error", JStr(<<W("Service non disponible")>>)),
                                   KV("message", JStr(<<W("L'orchestrateur n'a pas pu etre initialise.")>>))>>))
    ELSE IF question_is_blank(question)
    THEN HTTPException(400, JStr(<<W("La question ne peut pas etre vide.")>>))
    ELSE NoResponse

validate(question, orchestrator) ==
    IF question_is_blank(question)
    THEN HTTPException(400, JStr(<<W("La question ne peut pas etre vide.")>>))
    ELSE IF orchestrator = None
    THEN HTTPException(503, JObj(<<KV("error", JStr(<<W("Service non disponible")>>)),
                                   KV("message", JStr(<<W("L'orchestrateur n'a pas pu etre initialise.")>>))>>))
    ELSE NoResponse

\* the Runner.run call of the handler
runner_call_stripped(orchestrator, question) ==
    [agent |-> orchestrator, input |-> strip(question), max_turns |-> max_turns]

\* the call without max_turns=25: the runner's own default of 10 turns
runner_call_default_turns(orchestrator, question) ==
    [agent |-> orchestrator, input |-> question, max_turns |-> 10]

runner_call(orchestrator, question) ==
    [agent |-> orchestrator, input |-> question, max_turns |-> max_turns]

\* what the orchestrator's run ends in: a final output (a str) or an exception
FinalOutputs ==
    { <<P("["), P("]")>>,
      <<P("["), P("{"), S(<<W("title")>>), P(":"), S(<<W("Algolia")>>), P("}"), P("]")>>,
      <<W("I found no tools.")>> }

RunExceptions ==
    { Exc("APIConnectionError", <<W("Connection error.")>>) }

\* how a run ends when it is left to run as many turns as it needs
RunOutcomes ==
    {[raised |-> FALSE, final_output |-> o, exc |-> Exc("", <<>>)] : o \in FinalOutputs}
    \cup {[raised |-> TRUE, final_output |-> <<>>, exc |-> e] : e \in RunExceptions}

\* what the orchestrator does on a question: the number of turns (model calls)
\* it takes to get to its end, and that end
RunBehaviour(turns, ending) == [turns |-> turns, ending |-> ending]

RunBehaviours ==
    {RunBehaviour(3, e) : e \in RunOutcomes}
        \cup {RunBehaviour(n, [raised |-> FALSE, final_output |-> <<P("["), P("]")>>,
                               exc |-> Exc("", <<>>)]) : n \in {25, 26}}

\* Runner.run(agent, input, max_turns=...): the run is cut with
\* MaxTurnsExceeded when it would go past max_turns turns
Runner_run(call, behaviour) ==
    IF behaviour.turns > call.max_turns
    THEN [raised |-> TRUE, final_output |-> <<>>,
          exc |-> Exc("MaxTurnsExceeded",
                      <<W("Max turns ("), W(ToString(call.max_turns)), W(") exceeded")>>)]
    ELSE behaviour.ending

\* run_search_agent from the await on: return result.final_output, or the
\* except clause
finish_nocatch(outcome) ==
    IF outcome.raised
    THEN Response(-1, JStr(str(outcome.exc)))
    ELSE Response(200, JStr(outcome.final_output))

finish(outcome) ==
    IF outcome.raised
    THEN HTTPException(500,
            JObj(<<KV("error", JStr(<<W("Une erreur inattendue est survenue lors du traitement de votre requete.")>>)),
                   KV("details", JStr(str(outcome.exc)))>>))
    ELSE Response(200, JStr(outcome.final_output))

\* method and path of the request, query the value of its question parameter;
\* handler is the function it is routed to and question that function's
\* parameter
IdleRequest ==
    [pc |-> "idle", method |-> "", path |-> "", query |-> <<>>, handler |-> "",
     question |-> <<>>, run |-> <<>>, needed |-> 0, outcome |-> <<>>,
     response |-> NoResponse]

HttpRequest(method, path, query) == [method |-> method, path |-> path, query |-> query]

\* the requests a client sends
HttpRequests ==
    {HttpRequest("POST", "/search/", q) : q \in Questions}
        \cup {HttpRequest("GET", "/search/", <<"a">>),
              HttpRequest("GET", "/", <<>>),
              HttpRequest("POST", "/", <<>>)}

\* the route table: @app.post("/search/") and @app.get("/"); a path that is
\* registered for another method only gets 405
route_get_and_post(method, path) ==
    CASE path = "/search/" /\ method \in {"GET", "POST"} -> "run_search_agent"
      [] path = "/" /\ method = "GET" -> "read_root"
      [] OTHER -> "405"

route(method, path) ==
    CASE path = "/search/" /\ method = "POST" -> "run_search_agent"
      [] path = "/" /\ method = "GET" -> "read_root"
      [] OTHER -> "405"

MethodNotAllowed == Response(405, JObj(<<KV("detail", JStr(<<W("Method Not Allowed")>>))>>))

read_root ==
    Response(200, JObj(<<KV("message",
        JStr(<<W("Bienvenue sur l'API Deep Search Agent. Utilisez le point de terminaison /search/ pour faire des requetes.")>>))>>))

\* what run_search_agent leaves in app.state: it reads
\* request.app.state.orchestrator and assigns nothing
run_search_agent_state_lazy_init(state) ==
    IF state.orchestrator = None
    THEN [state EXCEPT !.orchestrator = "Orchestrator"]
    ELSE state

run_search_agent_state(state) == state

\* the handler takes a request whatever the other requests are doing: there
\* is no lock, semaphore or queue in front of the run
run_search_agent_admits_one_at_a_time(reqs, r) ==
    \A s \in DOMAIN reqs : reqs[s].pc # "running"

run_search_agent_admits(reqs, r) == TRUE

ReceiveRequest(r, req) ==
    /\ startup_pc = "serving"
    /\ requests[r].pc = "idle"
    /\ run_search_agent_admits(requests, r)
    /\ LET handler == route(req.method, req.path)
           question == req.query
           resp == validate(question, app_state.orchestrator)
           arrived == [requests[r] EXCEPT !.method = req.method, !.path = req.path,
                                          !.query = req.query, !.handler = handler]
       IN requests' = [requests EXCEPT ![r] =
            CASE handler = "405" -> [arrived EXCEPT !.pc = "done", !.response = MethodNotAllowed]
              [] handler = "read_root" -> [arrived EXCEPT !.pc = "done", !.response = read_root]
              [] handler = "run_search_agent" ->
                    IF resp # NoResponse
                    THEN [arrived EXCEPT !.pc = "done", !.question = question,
                                         !.response = resp]
                    ELSE [arrived EXCEPT !.pc = "running", !.question = question,
                                         !.run = <<runner_call(app_state.orchestrator, question)>>]]
    /\ app_state' = IF route(req.method, req.path) = "run_search_agent"
                    THEN run_search_agent_state(app_state)
                    ELSE app_state
    /\ UNCHANGED <<startup_pc, startup_log, createCalls>>
    /\ UNCHANGED <<batchVars, searchVars>>

\* the run of request r ends, after behaviour.turns turns or cut at max_turns
RunCompletes(r, behaviour) ==
    /\ requests[r].pc = "running"
    /\ LET outcome == Runner_run(requests[r].run[1], behaviour)
       IN requests' = [requests EXCEPT ![r] =
            [@ EXCEPT !.pc = "done", !.needed = behaviour.turns,
                      !.outcome = <<outcome>>, !.response = finish(outcome)]]
    /\ UNCHANGED <<startup_pc, app_state, startup_log, createCalls>>
    /\ UNCHANGED <<batchVars, searchVars>>

\* the environment with nothing but the search key set
Environ(linkup_key) ==
    [LINKUP_API_KEY |-> linkup_key, ANTHROPIC_API_KEY |-> None,
     CLAUDE_MODEL_NAME |-> None, LITELLM_AVAILABLE |-> FALSE]

BatchIdle ==
    /\ batch_pc = "idle"
    /\ discovered = <<>>
    /\ invocations = <<>>
    /\ calls = <<>>
    /\ collected = <<>>

IdleSearchCall ==
    [pc |-> "idle", fn |-> "", query |-> <<>>, depth |-> "",
     response |-> <<>>, raised |-> FALSE, value |-> <<>>]

SearchIdle ==
    /\ env = Environ(None)
    /\ search_call = [IdleSearchCall EXCEPT !.pc = "off"]
    /\ tasks = <<>>
    /\ sent = <<>>

InitApi ==
    /\ startup_pc = "agent"
    /\ app_state = [agent |-> None, orchestrator |-> None]
    /\ startup_log = [agent |-> "", orchestrator |-> ""]
    /\ createCalls = 0
    /\ requests = [r \in 1..MaxRequests |-> IdleRequest]
    /\ BatchIdle
    /\ SearchIdle

NextApi ==
    \/ \E o \in AgentOutcomes : StartupAgent(o)
    \/ \E o \in CreateOutcomes : StartupOrchestrator(o)
    \/ \E r \in 1..MaxRequests, req \in HttpRequests : ReceiveRequest(r, req)
    \/ \E r \in 1..MaxRequests, b \in RunBehaviours : RunCompletes(r, b)

SpecApi == InitApi /\ [][NextApi]_vars

----------------------------------------------------------------------------
(* Claims on the HTTP endpoint *)

Requests == 1..MaxRequests
\* empty, or nothing but whitespace
Blank(question) == \A i \in DOMAIN question : question[i] = " "
\* the search handler has answered request r
Done(r) == requests[r].pc = "done" /\ requests[r].handler = "run_search_agent"
Detail(resp, key) == {m.v : m \in {resp.content.kv[i] : i \in DOMAIN resp.content.kv} \cap
                                  {x \in {resp.content.kv[i] : i \in DOMAIN resp.content.kv} : x.k = key}}

\* C2 as stated: 400 whenever the question is empty or whitespace-only, 503
\* whenever app.state.orchestrator is None, and no orchestrator run in either
\* case.
C2_Original ==
    \A r \in Requests : Done(r) =>
        /\ Blank(requests[r].question) =>
              requests[r].response.status = 400 /\ requests[r].run = <<>>
        /\ app_state.orchestrator = None =>
              requests[r].response.status = 503 /\ requests[r].run = <<>>

\* C2 amended: POST /search/ answers 400 whenever the question is empty or
\* whitespace-only, and 503 whenever the orchestrator is None and the question
\* is not blank (a blank question gets 400 even then); in neither case is the
\* orchestrator run, and a run is started only for a non-blank question with an
\* orchestrator present.
C2_Validation ==
    \A r \in Requests :
        /\ Done(r) /\ Blank(requests[r].question) =>
              requests[r].response.status = 400 /\ requests[r].run = <<>>
        /\ Done(r) /\ ~Blank(requests[r].question)
                   /\ app_state.orchestrator = None =>
              requests[r].response.status = 503 /\ requests[r].run = <<>>
        /\ requests[r].run # <<>> =>
              /\ ~Blank(requests[r].question)
              /\ app_state.orchestrator # None

C2_Witness ==
    \E r1, r2 \in Requests :
        /\ Done(r1) /\ requests[r1].question = <<" ">>
        /\ requests[r1].response.status = 400
        /\ Done(r2) /\ requests[r2].question = <<"a">>
        /\ requests[r2].response.status = 503

\* what json.loads makes of a text, over the documents the runs can produce
JInvalid == [t |-> "invalid", s |-> <<>>, kv |-> <<>>]

JsonDocs ==
    { JArr(<<>>),
      JArr(<<JObj(<<KV("title", JStr(<<W("Algolia")>>))>>)>>),
      JStr(<<W("Algolia")>>) }
    \cup {JStr(o) : o \in FinalOutputs}

json_loads(text) ==
    IF \E v \in JsonDocs : json_dumps(v) = text
    THEN CHOOSE v \in JsonDocs : json_dumps(v) = text
    ELSE JInvalid

\* C5: when the run's final output is valid JSON text, the body of the 200
\* response has the same JSON structure: parsing the final output and
\* re-serialising it gives the response body, with no wrapping.
C5_RoundTrip ==
    \A r \in Requests :
        (/\ Done(r)
         /\ requests[r].response.status = 200
         /\ json_loads(requests[r].outcome[1].final_output) # JInvalid)
        => /\ ResponseBody(requests[r].response)
                = json_dumps(json_loads(requests[r].outcome[1].final_output))
           /\ json_loads(ResponseBody(requests[r].response))
                = json_loads(requests[r].outcome[1].final_output)

\* C7: an exception raised by the orchestrator's run is caught by the handler
\* and becomes a 500 whose detail carries the exception's string; a request
\* that passed validation ends in the run's final output or in a 500, never in
\* an exception leaving the handler.
C7_RunErrorsBecome500 ==
    \A r \in Requests : Done(r) /\ requests[r].run # <<>> =>
        LET o == requests[r].outcome[1]
            resp == requests[r].response
        IN IF o.raised
           THEN /\ resp.status = 500
                /\ Detail(resp, "details") = {JStr(str(o.exc))}
           ELSE resp = Response(200, JStr(o.final_output))

C7_Witness ==
    \E r \in Requests :
        /\ Done(r)
        /\ requests[r].outcome # <<>>
        /\ requests[r].outcome[1].raised
        /\ requests[r].outcome[1].exc.type = "MaxTurnsExceeded"
        /\ requests[r].response.status = 500

\* C8 as stated: handling a request with a non-empty question triggers
\* create_orchestrator and then one orchestrator run on that question, and the
\* response is that run's final output.
C8_Original ==
    [][\A r \in Requests :
          (requests[r].pc = "idle" /\ requests'[r].pc # "idle"
              /\ requests'[r].question # <<>>)
          => /\ createCalls' = createCalls + 1
             /\ requests'[r].run = <<runner_call(app_state.orchestrator, requests'[r].question)>>]_vars

\* C8 amended: handling a request never calls create_orchestrator (it is called
\* once, by startup_event); a request with a non-blank question, when the
\* orchestrator created at startup exists, starts exactly one run of that
\* orchestrator on the question as given, with max_turns 25, and when the run
\* returns the response is its final output.
C8_RunOnPreinitialised ==
    /\ createCalls = (IF startup_pc = "serving" THEN 1 ELSE 0)
    /\ \A r \in Requests :
          (/\ requests[r].pc # "idle"
           /\ ~Blank(requests[r].question)
           /\ app_state.orchestrator # None)
          => /\ requests[r].run = <<[agent |-> app_state.orchestrator,
                                     input |-> requests[r].question,
                                     max_turns |-> 25]>>
             /\ (Done(r) /\ ~requests[r].outcome[1].raised) =>
                    requests[r].response
                        = Response(200, JStr(requests[r].outcome[1].final_output))

C8_Witness ==
    \E r \in Requests :
        /\ Done(r)
        /\ requests[r].question = <<" ", "a">>
        /\ requests[r].response.status = 200
        /\ createCalls = 1

\* C9: startup_event never halts: an exception from agent pre-configuration or
\* from orchestrator creation is caught and logged, the corresponding app.state
\* entry is None, and startup goes on to the next step and to serving.
C9_StartupNeverHalts ==
    /\ startup_pc \in {"agent", "orchestrator", "serving"}
    /\ startup_log.agent = "error" =>
          app_state.agent = None /\ startup_pc \in {"orchestrator", "serving"}
    /\ startup_log.orchestrator = "error" =>
          app_state.orchestrator = None /\ startup_pc = "serving"
    /\ startup_pc = "orchestrator" => startup_log.agent # ""
    /\ startup_pc = "serving" => startup_log.orchestrator # ""

C9_Witness ==
    /\ startup_pc = "serving"
    /\ startup_log = [agent |-> "error", orchestrator |-> "error"]
    /\ app_state = [agent |-> None, orchestrator |-> None]
    /\ \E r \in Requests : Done(r) /\ requests[r].response.status = 503

----------------------------------------------------------------------------
(* orchestrator/orchestrator.py: research_worker and the fan-out *)

ToolNames == {<<W("Algolia")>>, <<W("Elasticsearch")>>}
Focuses == {<<W("comprehensive analysis")>>, <<W("pricing")>>}

\* how the worker agent's run ends for one call
WorkerRunKinds == {"record", "prose", "no_final_output", "timeout", "http500"}
FailedKinds == {"create_failed", "timeout", "http500"}

WorkerException(kind) ==
    CASE kind = "timeout" -> Exc("APITimeoutError", <<W("Request timed out.")>>)
      [] kind = "http500" -> Exc("InternalServerError", <<W("Error code: 500")>>)
      [] kind = "create_failed" -> Exc("UserError", <<W("invalid agent configuration")>>)

\* the worker agent's answer about a tool: the JSON record it was asked for, or
\* prose; a result object without final_output is rendered by str(result)
WorkerOutput(tool_name, kind) ==
    CASE kind = "record" ->
            json_dumps(JObj(<<KV("title", JStr(tool_name)),
                              KV("pros", JArr(<<>>))>>))
      [] kind = "prose" -> <<W("I could not find data about ")>> \o tool_name
      [] kind = "no_final_output" -> <<W("RunResult for ")>> \o tool_name

\* the except clause of research_worker
research_error(tool_name, research_focus, e) ==
    json_dumps(JObj(<<
        KV("error", JStr(<<W("Research failed for ")>> \o tool_name \o <<W(": ")>> \o str(e))),
        KV("tool_name", JStr(tool_name)),
        KV("research_focus", JStr(research_focus))>>))

\* worker/worker.py: the module-level CLAUDE_MODEL_NAME, with its default
DefaultClaudeModel == "claude-opus-4-20250514"
worker_CLAUDE_MODEL_NAME ==
    IF env.CLAUDE_MODEL_NAME = None THEN DefaultClaudeModel ELSE env.CLAUDE_MODEL_NAME

Agent(id, name, model) == [id |-> id, name |-> name, model |-> model]
NoAgent == Agent(0, "", "")
LitellmModel(model) == model

\* worker/worker.py create_worker_agent: every call constructs a new Agent
\* object (heap = the Agent objects constructed so far); llm_model is worked
\* out from the environment, the Agent is given the literal model name
create_worker_agent_shared(heap) ==
    Agent(1, "worker", "gpt-4o-2024-08-06")

create_worker_agent(heap) ==
    LET llm_model ==
            IF /\ env.LITELLM_AVAILABLE
               /\ env.ANTHROPIC_API_KEY \notin {None, ""}
               /\ worker_CLAUDE_MODEL_NAME # ""
            THEN LitellmModel(worker_CLAUDE_MODEL_NAME)
            ELSE None
    IN Agent(heap + 1, "worker", "gpt-4o-2024-08-06")

\* entering research_worker: the invocation is logged, whatever its name
research_worker_begin_dedup(log, tool_name, research_focus) ==
    IF \E k \in DOMAIN log : log[k].tool_name = tool_name
    THEN log
    ELSE Append(log, [tool_name |-> tool_name, research_focus |-> research_focus])

research_worker_begin(log, tool_name, research_focus) ==
    Append(log, [tool_name |-> tool_name, research_focus |-> research_focus])

\* worker = create_worker_agent(), inside the try
research_worker_create_nocatch(tool_name, research_focus, created) ==
    IF created
    THEN [pc |-> "awaiting", result |-> <<>>]
    ELSE [pc |-> "raised", result |-> <<>>]

research_worker_create(tool_name, research_focus, created) ==
    IF created
    THEN [pc |-> "awaiting", result |-> <<>>]
    ELSE [pc |-> "returned",
          result |-> research_error(tool_name, research_focus,
                                    WorkerException("create_failed"))]

\* result = await runner.run(...); return its final output, inside the try
research_worker_run_nocatch(tool_name, research_focus, kind) ==
    IF kind \in FailedKinds
    THEN [pc |-> "raised", result |-> <<>>]
    ELSE [pc |-> "returned", result |-> WorkerOutput(tool_name, kind)]

research_worker_run_retry(tool_name, research_focus, kind) ==
    IF kind \in FailedKinds
    THEN [pc |-> "awaiting", result |-> <<>>]
    ELSE [pc |-> "returned", result |-> WorkerOutput(tool_name, kind)]

research_worker_run(tool_name, research_focus, kind) ==
    IF kind \in FailedKinds
    THEN [pc |-> "returned",
          result |-> research_error(tool_name, research_focus, WorkerException(kind))]
    ELSE [pc |-> "returned", result |-> WorkerOutput(tool_name, kind)]

\* the search stage of the orchestrator's run ends with a list of tool names
SearchStage(names) ==
    /\ batch_pc = "search"
    /\ discovered' = names
    /\ batch_pc' = "dispatch"
    /\ UNCHANGED <<invocations, calls, collected>>
    /\ UNCHANGED <<apiVars, searchVars>>

\* one research_worker tool call per discovered tool, all in one turn
\* (parallel_tool_calls=True)
Dispatch(focus) ==
    /\ batch_pc = "dispatch"
    /\ calls' = [i \in DOMAIN discovered |->
                    [pc |-> "pending", tool_name |-> discovered[i],
                     research_focus |-> focus[i], worker |-> NoAgent,
                     outcome |-> "", result |-> <<>>]]
    /\ batch_pc' = "running"
    /\ UNCHANGED <<discovered, invocations, collected>>
    /\ UNCHANGED <<apiVars, searchVars>>

\* the Agent objects the calls of the batch have constructed so far
AgentsCreated == Cardinality({j \in DOMAIN calls : calls[j].worker # NoAgent})

\* call i runs from its entry to its first await (or to its return when the
\* worker agent cannot be created)
Begin(i, created) ==
    /\ batch_pc = "running"
    /\ calls[i].pc = "pending"
    /\ \A j \in 1..(i - 1) : calls[j].pc # "pending"
    /\ invocations' = research_worker_begin(invocations, calls[i].tool_name,
                                            calls[i].research_focus)
    /\ LET res == research_worker_create(calls[i].tool_name,
                                         calls[i].research_focus, created)
       IN calls' = [calls EXCEPT ![i].pc = res.pc,
                                 ![i].result = res.result,
                                 ![i].worker = IF created
                                               THEN create_worker_agent(AgentsCreated)
                                               ELSE NoAgent,
                                 ![i].outcome = IF created THEN "" ELSE "create_failed"]
    /\ UNCHANGED <<batch_pc, discovered, collected>>
    /\ UNCHANGED <<apiVars, searchVars>>

\* the worker agent's run of call i ends
WorkerRunEnds(i, kind) ==
    /\ batch_pc = "running"
    /\ calls[i].pc = "awaiting"
    /\ LET res == research_worker_run(calls[i].tool_name,
                                      calls[i].research_focus, kind)
       IN calls' = [calls EXCEPT ![i].pc = res.pc,
                                 ![i].result = res.result,
                                 ![i].outcome = kind]
    /\ UNCHANGED <<batch_pc, discovered, invocations, collected>>
    /\ UNCHANGED <<apiVars, searchVars>>

\* await all: the tool outputs go back to the orchestrator once every call has
\* returned; an exception out of a call fails the run
Gather ==
    /\ batch_pc = "running"
    /\ \/ \E i \in DOMAIN calls : calls[i].pc = "raised"
       \/ \A i \in DOMAIN calls : calls[i].pc = "returned"
    /\ IF \E i \in DOMAIN calls : calls[i].pc = "raised"
       THEN batch_pc' = "failed" /\ UNCHANGED collected
       ELSE /\ batch_pc' = "done"
            /\ collected' = [i \in DOMAIN calls |-> calls[i].result]
    /\ UNCHANGED <<discovered, invocations, calls>>
    /\ UNCHANGED <<apiVars, searchVars>>

\* the model settings a process can be started with
ModelEnvs ==
    {[LINKUP_API_KEY |-> None, ANTHROPIC_API_KEY |-> k,
      CLAUDE_MODEL_NAME |-> m, LITELLM_AVAILABLE |-> TRUE] :
        k \in {None, "sk-ant"}, m \in {None, "claude-3-5-haiku-20241022"}}

ApiIdle ==
    /\ startup_pc = "off"
    /\ app_state = [agent |-> None, orchestrator |-> None]
    /\ startup_log = [agent |-> "", orchestrator |-> ""]
    /\ createCalls = 0
    /\ requests = [r \in 1..MaxRequests |-> IdleRequest]

InitBatch ==
    /\ batch_pc = "search"
    /\ discovered = <<>>
    /\ invocations = <<>>
    /\ calls = <<>>
    /\ collected = <<>>
    /\ ApiIdle
    /\ env \in ModelEnvs
    /\ search_call = [IdleSearchCall EXCEPT !.pc = "off"]
    /\ tasks = <<>>
    /\ sent = <<>>

NextBatch ==
    \/ \E names \in SeqsUpTo(ToolNames, MaxTools) : SearchStage(names)
    \/ \E focus \in [DOMAIN discovered -> Focuses] : Dispatch(focus)
    \/ \E i \in DOMAIN calls, created \in BOOLEAN : Begin(i, created)
    \/ \E i \in DOMAIN calls, kind \in WorkerRunKinds : WorkerRunEnds(i, kind)
    \/ Gather

SpecBatch == InitBatch /\ [][NextBatch]_vars

----------------------------------------------------------------------------
(* Claims on the fan-out *)

CallFailed(i) == calls[i].outcome \in FailedKinds

\* the string research_worker is to return for call i, given how its worker
\* agent ended
ExpectedResult(i) ==
    IF CallFailed(i)
    THEN research_error(calls[i].tool_name, calls[i].research_focus,
                        WorkerException(calls[i].outcome))
    ELSE WorkerOutput(calls[i].tool_name, calls[i].outcome)

\* C1: a research_worker invocation whose worker agent cannot be created or
\* whose run raises returns a JSON object string with an "error" key instead
\* of raising, and the other invocations of the batch can still run to their
\* end and return their own results.
C1_FailureIsolated ==
    /\ batch_pc # "failed"
    /\ \A i \in DOMAIN calls :
          /\ calls[i].pc # "raised"
          /\ CallFailed(i) =>
                /\ calls[i].pc = "returned"
                /\ IsJsonObject(calls[i].result)
                /\ HasKey(calls[i].result, "error")
                /\ StringAt(calls[i].result, "tool_name") = calls[i].tool_name
          /\ (calls[i].pc = "returned" /\ ~CallFailed(i)) =>
                calls[i].result = WorkerOutput(calls[i].tool_name, calls[i].outcome)
          /\ calls[i].pc = "awaiting" =>
                ENABLED (\E kind \in WorkerRunKinds : WorkerRunEnds(i, kind))

C1_Witness ==
    \E i, j \in DOMAIN calls :
        /\ i # j
        /\ calls[i].outcome = "http500" /\ calls[i].pc = "returned"
        /\ calls[j].outcome = "record" /\ calls[j].pc = "returned"
        /\ HasKey(calls[i].result, "error")
        /\ ~HasKey(calls[j].result, "error")

C4_BatchCompletes ==
    /\ batch_pc # "failed"
    /\ batch_pc = "running" => ENABLED NextBatch
    /\ batch_pc = "done" =>
          /\ Len(collected) = Len(calls)
          /\ \A i \in DOMAIN calls :
                /\ collected[i] = ExpectedResult(i)
                /\ CallFailed(i) => HasKey(collected[i], "error")

C4_Witness ==
    /\ batch_pc = "done"
    /\ Len(calls) = 2
    /\ calls[1].outcome = "timeout"
    /\ calls[2].outcome = "record"
    /\ HasKey(collected[1], "error")
    /\ collected[2] = WorkerOutput(<<W("Elasticsearch")>>, "record")

----------------------------------------------------------------------------
(* The search clients: orchestrator/orchestrator.py linkup_search,            *)
(* worker/worker.py linkup_search_worker and deep_research_tool,              *)
(* mcp_agents/orchestrator.py linkup_search, worker/linkup_service.py         *)

ApiKeys == {None, "", "lk-key"}
Queries == {<<W("best web search APIs")>>, <<W("RAG frameworks")>>}
Depths == {"standard", "deep"}

\* `not api_key`
falsy(api_key) == api_key = None \/ api_key = ""

os_getenv(name) == env[name]
\* the module-level LINKUP_API_KEY of worker/worker.py and worker/config.py,
\* read from the environment when the module is imported
worker_LINKUP_API_KEY == env.LINKUP_API_KEY
config_LINKUP_API_KEY == env.LINKUP_API_KEY

\* what the provider does with one request
Source(keys) ==
    [keys |-> keys, name |-> <<W("Algolia docs")>>, title |-> <<W("Algolia")>>,
     url |-> <<W("https://algolia.com/doc")>>, snippet |-> <<W("Search API")>>]

Body(decodable, is_dict, keys, sources) ==
    [decodable |-> decodable, is_dict |-> is_dict, keys |-> keys,
     answer |-> <<W("Algolia is a hosted search API")>>, sources |-> sources]

NoBody == Body(FALSE, FALSE, {}, <<>>)

Bodies ==
    { Body(TRUE, TRUE, {"answer", "sources"}, <<Source({"name", "url", "snippet"})>>),
      Body(TRUE, TRUE, {"answer", "sources"}, <<Source({"title"}), Source({"name", "title", "url"})>>),
      Body(TRUE, TRUE, {"answer"}, <<>>),
      Body(TRUE, FALSE, {}, <<>>),
      NoBody }

HttpResponse(status, body) ==
    [kind |-> "http", status |-> status, body |-> body, exc |-> Exc("", <<>>)]

ProviderResponses ==
    {[kind |-> "timeout", status |-> 0, body |-> NoBody,
      exc |-> Exc("ReadTimeout", <<>>)],
     [kind |-> "error", status |-> 0, body |-> NoBody,
      exc |-> Exc("ConnectError", <<W("All connection attempts failed")>>)]}
    \cup {HttpResponse(200, b) : b \in Bodies}
    \cup {HttpResponse(st, NoBody) : st \in {500, 429}}

Returned(text) == [raised |-> FALSE, value |-> text, exc |-> Exc("", <<>>)]
Raised(e) == [raised |-> TRUE, value |-> <<>>, exc |-> e]

\* source.get(key, default)
get(source, key, default) ==
    IF key \in source.keys THEN source[key] ELSE default

RECURSIVE format_sources(_, _, _)
format_sources(sources, i, withSnippet) ==
    IF sources = <<>> THEN <<>>
    ELSE LET source == Head(sources)
             title == get(source, "name", get(source, "title", <<W("No title")>>))
             url == get(source, "url", <<W("No URL")>>)
             snippet == get(source, "snippet", <<W("No snippet")>>)
         IN <<W(ToString(i)), W(". ")>> \o title \o <<W(" - ")>> \o url \o <<W("\n")>>
            \o (IF withSnippet THEN snippet \o <<W("\n\n")>> ELSE <<>>)
            \o format_sources(Tail(sources), i + 1, withSnippet)

\* the formatted_result of a decoded 200 response
format_result(result, withSnippet) ==
    LET answer == IF "answer" \in result.keys THEN result.answer ELSE <<>>
        sources == IF "sources" \in result.keys THEN result.sources ELSE <<>>
    IN <<W("Answer: ")>> \o answer \o <<W("\n\n")>>
       \o (IF sources # <<>>
           THEN <<W("Sources:\n")>> \o format_sources(sources, 1, withSnippet)
           ELSE <<>>)

\* what the body of the try block evaluates to: a returned string, or the
\* exception raised in it
try_body(resp, withSnippet) ==
    CASE resp.kind = "timeout" -> Raised(resp.exc)
      [] resp.kind = "error" -> Raised(resp.exc)
      [] resp.kind = "http" ->
            IF resp.status = 200
            THEN IF ~resp.body.decodable
                 THEN Raised(Exc("JSONDecodeError", <<W("Expecting value: line 1 column 1 (char 0)")>>))
                 ELSE IF ~resp.body.is_dict
                 THEN Raised(Exc("AttributeError", <<W("'list' object has no attribute 'get'")>>))
                 ELSE Returned(format_result(resp.body, withSnippet))
            ELSE Returned(<<W("Error: Linkup API returned status "), W(ToString(resp.status))>>)

\* try / except httpx.TimeoutException / except Exception
linkup_response_timeout_only(resp, withSnippet) ==
    LET r == try_body(resp, withSnippet)
    IN IF ~r.raised THEN r
       ELSE IF r.exc.type = "ReadTimeout"
            THEN Returned(<<W("Error: Search request timed out")>>)
            ELSE r

linkup_response(resp, withSnippet) ==
    LET r == try_body(resp, withSnippet)
    IN IF ~r.raised THEN r
       ELSE IF r.exc.type = "ReadTimeout"
            THEN Returned(<<W("Error: Search request timed out")>>)
            ELSE Returned(<<W("Error: Search failed - ")>> \o str(r.exc))

Request(fn, api_key, query, depth) ==
    [fn |-> fn, auth |-> api_key, q |-> query, depth |-> depth,
     outputType |-> "sourcedAnswer"]

Start(text, request) == [returned |-> text # <<>>, value |-> text, request |-> request]

\* orchestrator/orchestrator.py linkup_search, up to the request
linkup_search_start_nocheck(query, depth) ==
    Start(<<>>, <<Request("linkup_search", os_getenv("LINKUP_API_KEY"), query, "deep")>>)

linkup_search_start(query, depth) ==
    IF falsy(os_getenv("LINKUP_API_KEY"))
    THEN Start(<<W("Error: Linkup API key not configured")>>, <<>>)
    ELSE Start(<<>>, <<Request("linkup_search", os_getenv("LINKUP_API_KEY"), query, "deep")>>)

linkup_search_result(resp) == linkup_response(resp, TRUE)

\* worker/worker.py linkup_search_worker
linkup_search_worker_start(query, depth) ==
    IF falsy(worker_LINKUP_API_KEY)
    THEN Start(<<W("Error: Linkup API key not configured")>>, <<>>)
    ELSE Start(<<>>, <<Request("linkup_search_worker", worker_LINKUP_API_KEY, query, "standard")>>)

\* linkup_search_worker letting a timeout out
linkup_search_worker_result_raising(resp) ==
    IF resp.kind = "timeout"
    THEN Raised(Exc("TimeoutException", <<W("timed out")>>))
    ELSE linkup_response(resp, TRUE)

linkup_search_worker_result(resp) == linkup_response(resp, TRUE)

\* mcp_agents/orchestrator.py linkup_search
mcp_linkup_search_start(query, depth) ==
    IF falsy(os_getenv("LINKUP_API_KEY"))
    THEN Start(<<W("Error: Linkup API key not configured")>>, <<>>)
    ELSE Start(<<>>, <<Request("mcp_linkup_search", os_getenv("LINKUP_API_KEY"), query, depth)>>)

mcp_linkup_search_result(resp) == linkup_response(resp, FALSE)

\* worker/linkup_service.py search_with_linkup
search_with_linkup_start(query, depth) ==
    IF falsy(config_LINKUP_API_KEY)
    THEN Start(json_dumps(JObj(<<KV("error",
                JStr(<<W("Error: Linkup API key is not configured. Check your .env file and config.py.")>>))>>)),
               <<>>)
    ELSE Start(<<>>, <<[fn |-> "search_with_linkup", auth |-> config_LINKUP_API_KEY,
                        q |-> query, depth |-> depth, outputType |-> "searchResults"]>>)

SdkOutcomes == {"results", "str", "empty", "unserializable", "sdk_error"}

\* search_with_linkup without its outer except clause
search_with_linkup_result_nocatch(outcome) ==
    CASE outcome = "results" ->
            Returned(json_dumps(JObj(<<KV("results", JArr(<<JObj(<<KV("name", JStr(<<W("Algolia")>>))>>)>>))>>)))
      [] outcome = "str" -> Returned(<<W("raw results")>>)
      [] outcome = "empty" ->
            Returned(json_dumps(JObj(<<KV("info", JStr(<<W("Linkup SDK returned an empty or null response.")>>))>>)))
      [] outcome = "unserializable" ->
            Returned(json_dumps(JObj(<<KV("error",
                JStr(<<W("Linkup SDK response could not be serialized. Response type: <class 'object'>")>>))>>)))
      [] outcome = "sdk_error" ->
            Raised(Exc("LinkupAuthenticationError", <<W("unauthorized")>>))

search_with_linkup_result(outcome) ==
    CASE outcome = "results" ->
            Returned(json_dumps(JObj(<<KV("results", JArr(<<JObj(<<KV("name", JStr(<<W("Algolia")>>))>>)>>))>>)))
      [] outcome = "str" -> Returned(<<W("raw results")>>)
      [] outcome = "empty" ->
            Returned(json_dumps(JObj(<<KV("info", JStr(<<W("Linkup SDK returned an empty or null response.")>>))>>)))
      [] outcome = "unserializable" ->
            Returned(json_dumps(JObj(<<KV("error",
                JStr(<<W("Linkup SDK response could not be serialized. Response type: <class 'object'>")>>))>>)))
      [] outcome = "sdk_error" ->
            Returned(json_dumps(JObj(<<KV("error",
                JStr(<<W("Error during Linkup SDK operation: unauthorized (Type: LinkupAuthenticationError)")>>))>>)))

\* worker/worker.py deep_research_tool
Categories == <<"basic_info_technical", "community_feedback", "implementation_examples">>

search_categories(subject) ==
    [c \in DOMAIN Categories |->
        [category |-> Categories[c],
         query |-> CASE c = 1 -> subject \o <<W(" API official documentation, GitHub repository stars forks, pricing ...")>>
                     [] c = 2 -> <<W("reddit.com ")>> \o subject \o <<W(" API review pros cons ...")>>
                     [] c = 3 -> subject \o <<W(" API integration code examples python javascript nodejs curl ...")>>]]

deep_research_tool_start(subject) ==
    IF falsy(worker_LINKUP_API_KEY)
    THEN Start(json_dumps(JObj(<<KV("error", JStr(<<W("Linkup API key not configured")>>))>>)), <<>>)
    ELSE LET cats == search_categories(subject)
         IN Start(<<>>, [c \in DOMAIN cats |->
                            linkup_search_worker_start(cats[c].query, "deep").request[1]])

\* the results taken in the order the searches finished
aggregate_by_completion(ts) ==
    json_dumps(JObj([i \in DOMAIN ts |->
        LET t == ts[CHOOSE k \in DOMAIN ts : ts[k].order = i]
        IN KV(ts[i].category,
              IF t.result.raised
              THEN JObj(<<KV("error", JStr(str(t.result.exc)))>>)
              ELSE JObj(<<KV("search_result", JStr(t.result.value))>>))]))

\* one entry per category, matched by launch position
aggregate(ts) ==
    json_dumps(JObj([i \in DOMAIN ts |->
        KV(ts[i].category,
           IF ts[i].result.raised
           THEN JObj(<<KV("error", JStr(str(ts[i].result.exc)))>>)
           ELSE JObj(<<KV("search_result", JStr(ts[i].result.value))>>))]))

SearchFns == {"linkup_search", "linkup_search_worker", "mcp_linkup_search",
              "search_with_linkup", "deep_research_tool"}
HttpFns == {"linkup_search", "linkup_search_worker", "mcp_linkup_search"}

StartOf(fn, query, depth) ==
    CASE fn = "linkup_search" -> linkup_search_start(query, depth)
      [] fn = "linkup_search_worker" -> linkup_search_worker_start(query, depth)
      [] fn = "mcp_linkup_search" -> mcp_linkup_search_start(query, depth)
      [] fn = "search_with_linkup" -> search_with_linkup_start(query, depth)
      [] fn = "deep_research_tool" -> deep_research_tool_start(query)

ResultOf(fn, resp) ==
    CASE fn = "linkup_search" -> linkup_search_result(resp)
      [] fn = "linkup_search_worker" -> linkup_search_worker_result(resp)
      [] fn = "mcp_linkup_search" -> mcp_linkup_search_result(resp)

\* a search operation is called: it returns at once without a key, and
\* otherwise sends its request(s) and awaits
Invoke(fn, query, depth) ==
    /\ search_call.pc = "idle"
    /\ LET st == StartOf(fn, query, depth)
       IN /\ search_call' = [search_call EXCEPT
                !.pc = IF st.returned THEN "returned" ELSE "awaiting",
                !.fn = fn, !.query = query, !.depth = depth, !.value = st.value]
          /\ sent' = sent \o st.request
          /\ tasks' = IF fn = "deep_research_tool" /\ ~st.returned
                      THEN [c \in DOMAIN st.request |->
                               [category |-> Categories[c], query |-> st.request[c].q,
                                pc |-> "awaiting", order |-> 0, response |-> <<>>,
                                result |-> Returned(<<>>)]]
                      ELSE tasks
    /\ UNCHANGED env
    /\ UNCHANGED <<apiVars, batchVars>>

\* the provider answers the request of an HTTP search function
ProviderResponds(resp) ==
    /\ search_call.pc = "awaiting"
    /\ search_call.fn \in HttpFns
    /\ LET r == ResultOf(search_call.fn, resp)
       IN search_call' = [search_call EXCEPT !.pc = IF r.raised THEN "raised" ELSE "returned",
                                             !.response = <<resp>>,
                                             !.raised = r.raised,
                                             !.value = r.value]
    /\ UNCHANGED <<env, tasks, sent>>
    /\ UNCHANGED <<apiVars, batchVars>>

\* the Linkup SDK call of search_with_linkup ends
SdkResponds(outcome) ==
    /\ search_call.pc = "awaiting"
    /\ search_call.fn = "search_with_linkup"
    /\ LET r == search_with_linkup_result(outcome)
       IN search_call' = [search_call EXCEPT !.pc = "returned",
                                             !.response = <<outcome>>,
                                             !.raised = r.raised,
                                             !.value = r.value]
    /\ UNCHANGED <<env, tasks, sent>>
    /\ UNCHANGED <<apiVars, batchVars>>

\* the provider answers one category search of deep_research_tool
TaskResponds(k, resp) ==
    /\ search_call.pc = "awaiting"
    /\ search_call.fn = "deep_research_tool"
    /\ tasks[k].pc = "awaiting"
    /\ tasks' = [tasks EXCEPT ![k].pc = "done",
                              ![k].order = Cardinality({j \in DOMAIN tasks :
                                                           tasks[j].pc = "done"}) + 1,
                              ![k].response = <<resp>>,
                              ![k].result = linkup_search_worker_result(resp)]
    /\ UNCHANGED <<env, search_call, sent>>
    /\ UNCHANGED <<apiVars, batchVars>>

\* a gather that gives up at the first failed search
GatherTasks_stop_at_failure ==
    /\ search_call.pc = "awaiting"
    /\ search_call.fn = "deep_research_tool"
    /\ \/ \A k \in DOMAIN tasks : tasks[k].pc = "done"
       \/ \E k \in DOMAIN tasks : tasks[k].pc = "done" /\ tasks[k].response[1].kind # "http"
    /\ search_call' = [search_call EXCEPT !.pc = "returned", !.value = aggregate(tasks)]
    /\ UNCHANGED <<env, tasks, sent>>
    /\ UNCHANGED <<apiVars, batchVars>>

\* asyncio.gather(*tasks, return_exceptions=True) completes; the results are
\* aggregated and returned
GatherTasks ==
    /\ search_call.pc = "awaiting"
    /\ search_call.fn = "deep_research_tool"
    /\ \A k \in DOMAIN tasks : tasks[k].pc = "done"
    /\ search_call' = [search_call EXCEPT !.pc = "returned", !.value = aggregate(tasks)]
    /\ UNCHANGED <<env, tasks, sent>>
    /\ UNCHANGED <<apiVars, batchVars>>

InitSearch ==
    /\ env \in {Environ(k) : k \in ApiKeys}
    /\ search_call = IdleSearchCall
    /\ tasks = <<>>
    /\ sent = <<>>
    /\ ApiIdle
    /\ BatchIdle

NextSearch ==
    \/ \E fn \in SearchFns, q \in Queries, d \in Depths : Invoke(fn, q, d)
    \/ \E resp \in ProviderResponses : ProviderResponds(resp)
    \/ \E o \in SdkOutcomes : SdkResponds(o)
    \/ \E k \in DOMAIN tasks, resp \in ProviderResponses : TaskResponds(k, resp)
    \/ GatherTasks

SpecSearch == InitSearch /\ [][NextSearch]_vars

----------------------------------------------------------------------------
(* Claims on the search clients *)

StartsWith(text, token) == text # <<>> /\ text[1] = token

\* what the claim allows an HTTP search function to give back for a response
SentinelFor(resp, raised, value) ==
    /\ ~raised
    /\ resp.kind = "timeout" => value = <<W("Error: Search request timed out")>>
    /\ (resp.kind = "http" /\ resp.status # 200) =>
          value = <<W("Error: Linkup API returned status "), W(ToString(resp.status))>>
    /\ (resp.kind = "error" \/ (resp.kind = "http" /\ resp.status = 200
                                   /\ ~resp.body.decodable)) =>
          StartsWith(value, W("Error: Search failed - "))
    /\ StartsWith(value, W("Answer: ")) =>
          resp.kind = "http" /\ resp.status = 200 /\ resp.body.decodable

\* C6: linkup_search / linkup_search_worker never raise: a timeout gives
\* "Error: Search request timed out", a non-200 response "Error: Linkup API
\* returned status <code>", any other exception (an undecodable 200 body
\* included) "Error: Search failed - <text>", and a result beginning with
\* "Answer: " comes only from a 200 response with a decodable body.
C6_SearchNeverRaises ==
    /\ search_call.pc # "raised"
    /\ (search_call.fn \in HttpFns /\ search_call.response # <<>>) =>
          SentinelFor(search_call.response[1], search_call.raised, search_call.value)
    /\ \A k \in DOMAIN tasks : tasks[k].pc = "done" =>
          SentinelFor(tasks[k].response[1], tasks[k].result.raised, tasks[k].result.value)

C6_Witness ==
    /\ search_call.fn = "linkup_search"
    /\ search_call.pc = "returned"
    /\ search_call.response # <<>>
    /\ search_call.response[1].kind = "http"
    /\ search_call.response[1].status = 200
    /\ ~search_call.response[1].body.decodable
    /\ StartsWith(search_call.value, W("Error: Search failed - "))

\* C10: without a search API key every search operation returns an explicit
\* error value ("Error: Linkup API key not configured", or a JSON object with
\* an "error" key), raises nothing and sends no request to the provider.
C10_NoKeyNoRequest ==
    falsy(env.LINKUP_API_KEY) =>
        /\ sent = <<>>
        /\ tasks = <<>>
        /\ search_call.pc \in {"idle", "returned"}
        /\ search_call.pc = "returned" =>
              /\ ~search_call.raised
              /\ search_call.fn \in HttpFns =>
                    search_call.value = <<W("Error: Linkup API key not configured")>>
              /\ search_call.fn \notin HttpFns =>
                    IsJsonObject(search_call.value) /\ HasKey(search_call.value, "error")

C10_Witness ==
    /\ env.LINKUP_API_KEY = None
    /\ search_call.fn = "deep_research_tool"
    /\ search_call.pc = "returned"
    /\ HasKey(search_call.value, "error")
    /\ sent = <<>>

----------------------------------------------------------------------------
(* The three components side by side: the server, a fan-out of
   research_worker calls, or a search call *)

Init == InitApi \/ InitBatch \/ InitSearch

Next ==
    \/ NextApi
    \/ NextBatch
    \/ NextSearch

Spec == Init /\ [][Next]_vars

----------------------------------------------------------------------------
(* Claims on retries *)

SingleRequestFns == HttpFns \cup {"search_with_linkup"}

\* requests go out at invocation only, one per search (one per category
\* search for deep_research_tool)
OneRequestPerSearch ==
    /\ search_call.fn \in SingleRequestFns => Len(sent) <= 1
    /\ search_call.fn = "deep_research_tool" =>
          /\ Len(sent) = Len(tasks)
          /\ \A k \in DOMAIN tasks : sent[k].q = tasks[k].query
    /\ Len(invocations) = Cardinality({i \in DOMAIN calls : calls[i].pc # "pending"})
    /\ \A r \in Requests : Len(requests[r].run) <= 1

NothingRepeated ==
    /\ sent' # sent => search_call.pc = "idle"
    /\ search_call.response # <<>> => search_call' = search_call
    /\ \A k \in DOMAIN tasks : tasks[k].pc = "done" => tasks'[k] = tasks[k]
    /\ \A i \in DOMAIN calls : calls[i].outcome # "" => calls'[i] = calls[i]
    /\ \A r \in Requests : requests[r].outcome # <<>> => requests'[r] = requests[r]

\* C11: nothing is retried. A search function sends its request(s) when it is
\* invoked and never again, whatever the provider answers; a research_worker
\* call enters once and, once its worker agent's run has ended (failed or
\* not), is never run again; the handler starts at most one orchestrator run
\* per request and a finished request is never run again.
C11_NoRetry == []OneRequestPerSearch /\ [][NothingRepeated]_vars

\* a timed-out linkup_search call has returned with one request sent
C11_Witness ==
    /\ search_call.fn = "linkup_search"
    /\ search_call.pc = "returned"
    /\ search_call.response # <<>>
    /\ search_call.response[1].kind = "timeout"
    /\ Len(sent) = 1

----------------------------------------------------------------------------
(* Claims on concurrent research calls *)

\* every call that has got past create_worker_agent holds an Agent object no
\* other call holds, and what a finished call returns is fixed by its own
\* tool_name, research_focus and the way its own worker agent's run ended
OwnWorkerOwnResult ==
    /\ \A i, j \in DOMAIN calls :
          (i # j /\ calls[i].worker # NoAgent /\ calls[j].worker # NoAgent) =>
              calls[i].worker.id # calls[j].worker.id
    /\ \A i \in DOMAIN calls :
          /\ calls[i].outcome # "" =>
                calls[i].pc = "returned" /\ calls[i].result = ExpectedResult(i)
          /\ (calls[i].outcome # "" /\ calls[i].outcome # "create_failed") =>
                calls[i].worker # NoAgent

\* a step of one call changes nothing of any other call
OneCallPerStep ==
    \A i, j \in DOMAIN calls :
        (i # j /\ j \in DOMAIN calls' /\ calls'[i] # calls[i]) => calls'[j] = calls[j]

\* C12: concurrent research_worker calls share no mutable state: each builds
\* its own worker agent and its own result, a step of one call leaves the
\* others as they were, and under every interleaving the value a call returns
\* is a function of its own arguments and of how its own worker run ended.
C12_CallsIndependent == []OwnWorkerOwnResult /\ [][OneCallPerStep]_vars

\* two calls in flight at once: the second has already failed and returned
\* while the first still awaits its worker agent
C12_Witness ==
    /\ Len(calls) = 2
    /\ calls[1].pc = "awaiting"
    /\ calls[2].pc = "returned"
    /\ calls[2].outcome = "timeout"
    /\ calls[1].worker.id # calls[2].worker.id
    /\ calls[2].worker # NoAgent

----------------------------------------------------------------------------
(* Claims on deep_research_tool's gather *)

InDeepResearch == search_call.fn = "deep_research_tool" /\ tasks # <<>>

\* the search of category k did not get a 200 response
SearchFailed(k) ==
    /\ tasks[k].pc = "done"
    /\ tasks[k].response[1].kind # "http" \/ tasks[k].response[1].status # 200

AllLaunchedAllAwaited ==
    InDeepResearch =>
        \* every category's search is launched, each with its request out
        /\ Len(tasks) = Len(Categories)
        /\ Len(sent) = Len(Categories)
        \* the tool has returned only if every search has finished
        /\ search_call.pc = "returned" => \A k \in DOMAIN tasks : tasks[k].pc = "done"
        /\ search_call.pc = "awaiting" =>
              \* an unfinished search can still get its answer, whatever
              \* became of the others
              /\ \A k \in DOMAIN tasks : tasks[k].pc = "awaiting" =>
                    ENABLED (\E resp \in ProviderResponses : TaskResponds(k, resp))
              \* and once all have finished the tool returns
              /\ (\A k \in DOMAIN tasks : tasks[k].pc = "done") => ENABLED GatherTasks

\* the end of one search touches neither the other searches nor the tool
OthersUntouched ==
    \A k \in DOMAIN tasks :
        (InDeepResearch /\ tasks' # <<>> /\ tasks'[k] # tasks[k]) =>
            /\ \A j \in DOMAIN tasks : j # k => tasks'[j] = tasks[j]
            /\ search_call' = search_call

\* C13: deep_research_tool launches the searches of all its categories
\* together and returns only after every one of them has finished; a search
\* that fails neither cancels nor cuts short the others, which still run to
\* their own answer.
C13_GatherWaitsForAll == []AllLaunchedAllAwaited /\ [][OthersUntouched]_vars

\* one search has failed while the others are still in flight
C13_Witness ==
    /\ InDeepResearch
    /\ search_call.pc = "awaiting"
    /\ SearchFailed(1)
    /\ \A k \in DOMAIN tasks : k # 1 => tasks[k].pc = "awaiting"

----------------------------------------------------------------------------
(* Claims on the request payload *)

\* C14: the depth in the payload of every request a search function sends is
\* the depth its caller passed: search_call.depth for a direct call, "deep"
\* for the category searches deep_research_tool launches with depth="deep".
C14_DepthPassedThrough ==
    \A n \in DOMAIN sent :
        sent[n].depth = IF search_call.fn = "deep_research_tool"
                        THEN "deep"
                        ELSE search_call.depth

----------------------------------------------------------------------------
(* Claims on routing *)

Arrived(r) == requests[r].pc # "idle"

\* C15 as stated: a request to /search/ is handled by the search handler
\* whether it is sent with GET or with POST.
C15_Original ==
    \A r \in Requests :
        (Arrived(r) /\ requests[r].path = "/search/"
            /\ requests[r].method \in {"GET", "POST"})
        => requests[r].handler = "run_search_agent"

\* C15: the search handler is registered for POST /search/ only. A request
\* reaches it exactly when it is a POST to /search/; a GET to /search/, with
\* a question or not, is answered 405 without any validation or orchestrator
\* run; the only GET route is /, which answers 200 with a welcome message.
C15_PostOnly ==
    \A r \in Requests : Arrived(r) =>
        /\ requests[r].handler = "run_search_agent"
              <=> (requests[r].method = "POST" /\ requests[r].path = "/search/")
        /\ (requests[r].method = "GET" /\ requests[r].path = "/search/") =>
              /\ requests[r].pc = "done"
              /\ requests[r].response.status = 405
              /\ requests[r].run = <<>>
        /\ (requests[r].method = "GET" /\ requests[r].path = "/") =>
              /\ requests[r].response.status = 200
              /\ Detail(requests[r].response, "message") # {}
              /\ requests[r].run = <<>>

\* GET /search/?question=a was refused while the orchestrator was available
C15_Witness ==
    \E r \in Requests :
        /\ requests[r].method = "GET"
        /\ requests[r].path = "/search/"
        /\ requests[r].query = <<"a">>
        /\ requests[r].response.status = 405
        /\ app_state.orchestrator # None

----------------------------------------------------------------------------
(* Claims on the model setting *)

\* the Claude model is configured: LiteLLM importable and an Anthropic key set
ClaudeConfigured ==
    env.LITELLM_AVAILABLE /\ env.ANTHROPIC_API_KEY \notin {None, ""}

\* C16: with the Claude model configured, the model a worker agent is created
\* with is the one CLAUDE_MODEL_NAME names (its default when the variable is
\* unset), so that another value of the variable gives another model.
C16_ModelFromEnvironment ==
    \A i \in DOMAIN calls :
        (ClaudeConfigured /\ calls[i].worker # NoAgent) =>
            calls[i].worker.model =
                IF env.CLAUDE_MODEL_NAME = None
                THEN "claude-opus-4-20250514"
                ELSE env.CLAUDE_MODEL_NAME

----------------------------------------------------------------------------
(* Claims on the number of searches *)

\* C17: one deep_research_tool invocation with the API key configured launches
\* exactly 2 linkup_search_worker calls, each sending one request.
C17_TwoSearches ==
    (search_call.fn = "deep_research_tool" /\ ~falsy(env.LINKUP_API_KEY)) =>
        Len(tasks) = 2 /\ Len(sent) = 2

----------------------------------------------------------------------------
(* Claims on search_with_linkup *)

ErrorObject(text) == IsJsonObject(text) /\ HasKey(text, "error")

\* C18: search_with_linkup always returns a string and never raises: the
\* serialised results when the SDK call succeeds; a JSON object with an
\* "error" key on every failure path (no API key, an exception out of the
\* SDK, a response that cannot be serialised); a JSON object with an "info"
\* key, and no "error" key, when the SDK gives an empty or null response.
C18_SearchWithLinkupTotal ==
    search_call.fn = "search_with_linkup" =>
        /\ search_call.pc # "raised"
        /\ search_call.pc = "returned" =>
              /\ ~search_call.raised
              /\ search_call.value # <<>>
              /\ falsy(env.LINKUP_API_KEY) =>
                    ErrorObject(search_call.value) /\ sent = <<>>
              /\ search_call.response # <<>> =>
                    LET outcome == search_call.response[1]
                    IN /\ outcome \in {"sdk_error", "unserializable"} =>
                             ErrorObject(search_call.value)
                       /\ outcome = "empty" =>
                             /\ IsJsonObject(search_call.value)
                             /\ ObjectKeys(search_call.value) = {<<W("info")>>}
                       /\ outcome = "results" =>
                             /\ IsJsonObject(search_call.value)
                             /\ ObjectKeys(search_call.value) = {<<W("results")>>}
                       /\ outcome = "str" => ~ErrorObject(search_call.value)

\* the SDK call raised and search_with_linkup returned the error object
C18_Witness ==
    /\ search_call.fn = "search_with_linkup"
    /\ search_call.pc = "returned"
    /\ search_call.response = <<"sdk_error">>
    /\ ErrorObject(search_call.value)

----------------------------------------------------------------------------
(* worker/agent_tools.py: LinkupSearchTool.run *)

Subjects == {<<W("Algolia")>>, <<W("Elasticsearch")>>}

\* the JSON documents an argument string can hold
ArgDocs ==
    {JObj(<<KV("subject", JStr(s))>>) : s \in Subjects \cup {<<>>, <<W(" ")>>}}
        \cup {JObj(<<>>),
              JObj(<<KV("query", JStr(<<W("Algolia")>>))>>),
              JObj(<<KV("subject", JNull)>>),
              JObj(<<KV("subject", JArr(<<JStr(<<W("Algolia")>>)>>))>>),
              JStr(<<W("Algolia")>>), JArr(<<>>), JNull}

\* argument strings that are not JSON
RawArgs == Subjects \cup {<<>>, <<W(" ")>>}

ToolArgs == {json_dumps(d) : d \in ArgDocs} \cup RawArgs

\* what search_with_linkup can return, as documents
SearchResultDocs ==
    {JObj(<<KV("results", JArr(<<JObj(<<KV("name", JStr(<<W("Algolia")>>))>>)>>))>>),
     JObj(<<KV("info", JStr(<<W("Linkup SDK returned an empty or null response.")>>))>>),
     JObj(<<KV("error", JStr(<<W("Linkup SDK response could not be serialized. Response type: <class 'object'>")>>))>>),
     JObj(<<KV("error", JStr(<<W("Error during Linkup SDK operation: unauthorized (Type: LinkupAuthenticationError)")>>))>>),
     JObj(<<KV("error", JStr(<<W("Error: Linkup API key is not configured. Check your .env file and config.py.")>>))>>)}

\* json.loads: the document a text is the serialisation of, JInvalid
\* (JSONDecodeError) when it is none
tool_json_loads(text) ==
    LET docs == ArgDocs \cup SearchResultDocs
    IN IF \E d \in docs : json_dumps(d) = text
       THEN CHOOSE d \in docs : json_dumps(d) = text
       ELSE JInvalid

\* str.strip() on a text of tokens
RECURSIVE text_lstrip(_)
text_lstrip(s) ==
    IF s = <<>> THEN s
    ELSE IF Head(s) = W(" ") THEN text_lstrip(Tail(s)) ELSE s

RECURSIVE text_rstrip(_)
text_rstrip(s) ==
    IF s = <<>> THEN s
    ELSE IF s[Len(s)] = W(" ") THEN text_rstrip(SubSeq(s, 1, Len(s) - 1)) ELSE s

text_strip(s) == text_rstrip(text_lstrip(s))

\* Python truth value of a JSON value
truthy(v) ==
    CASE v.t = "null" -> FALSE
      [] v.t = "str" -> v.s # <<>>
      [] OTHER -> v.kv # <<>>

\* dict.get(key): the value under that key (the last member wins in a parsed
\* object), None (JNull) without one
dict_get(obj, key) ==
    IF \E i \in DOMAIN obj.kv : obj.kv[i].k = key
    THEN obj.kv[CHOOSE i \in DOMAIN obj.kv :
                    /\ obj.kv[i].k = key
                    /\ \A j \in DOMAIN obj.kv : obj.kv[j].k = key => j <= i].v
    ELSE JNull

\* str() of a parsed value inside an f-string: the string itself; another
\* value is rendered by its JSON text
str_of(v) == IF v.t = "str" THEN v.s ELSE json_dumps(v)

ToolError(error, details) ==
    json_dumps(JObj(<<KV("error", JStr(error)), KV("details", JStr(details))>>))

Verdict(kind, value, subject) == [kind |-> kind, value |-> value, subject |-> subject]

\* the second check of run: `not isinstance(subject, str) or not subject.strip()`
final_subject_check_nostrip(subject) ==
    IF subject.t # "str" \/ subject.s = <<>>
    THEN Verdict("error",
                 ToolError(<<W("Invalid subject after processing")>>,
                           <<W("Final subject is '")>> \o str_of(subject) \o <<W("'")>>),
                 <<>>)
    ELSE Verdict("ok", <<>>, subject.s)

final_subject_check(subject) ==
    IF subject.t # "str" \/ text_strip(subject.s) = <<>>
    THEN Verdict("error",
                 ToolError(<<W("Invalid subject after processing")>>,
                           <<W("Final subject is '")>> \o str_of(subject) \o <<W("'")>>),
                 <<>>)
    ELSE Verdict("ok", <<>>, subject.s)

\* LinkupSearchTool.run up to the searches: json.loads, .get("subject") (an
\* AttributeError on a parsed value that is not a dict is caught nowhere),
\* the fallback to the raw string on JSONDecodeError, the two checks
LinkupSearchTool_subject(subject_json_string) ==
    LET parsed_args == tool_json_loads(subject_json_string)
    IN IF parsed_args = JInvalid
       THEN final_subject_check(JStr(subject_json_string))
       ELSE IF parsed_args.t # "obj"
       THEN Verdict("raise", <<>>, <<>>)
       ELSE IF ~truthy(dict_get(parsed_args, "subject"))
       THEN Verdict("error",
                    ToolError(<<W("Invalid subject format received by tool")>>,
                              <<W("Subject key missing after JSON parse.")>>),
                    <<>>)
       ELSE final_subject_check(dict_get(parsed_args, "subject"))

ToolCategories ==
    <<"general_info_and_subtitle", "github_link", "documentation_link",
      "release_date", "reddit_pros_cons_reviews", "use_cases_and_examples",
      "stack_compatibility", "pricing_business_model", "security_information",
      "mcp_link">>

tool_search_categories(subject) ==
    [c \in DOMAIN ToolCategories |->
        [category |-> ToolCategories[c],
         query |-> IF c = 1
                   THEN <<W("what is ")>> \o subject \o <<W(" API OR ...")>>
                   ELSE IF c = 5
                   THEN <<W("site:reddit.com ")>> \o subject \o <<W(" API pros and cons OR ...")>>
                   ELSE subject \o <<W(" "), W(ToolCategories[c]), W(" ...")>>]]

\* one entry per category: the parsed result, or an error entry for a result
\* that is not JSON
tool_aggregate(results) ==
    json_dumps(JObj([c \in DOMAIN ToolCategories |->
        KV(ToolCategories[c],
           IF tool_json_loads(results[c]) = JInvalid
           THEN JObj(<<KV("error", JStr(<<W("Invalid JSON response from Linkup")>>)),
                       KV("raw_content", JStr(results[c]))>>)
           ELSE tool_json_loads(results[c]))]))

\* how the SDK calls of the ten searches end: all alike, or all with results
\* but one
OutcomeVectors ==
    {[c \in DOMAIN ToolCategories |-> o] : o \in SdkOutcomes}
        \cup {[c \in DOMAIN ToolCategories |-> IF c = k THEN o ELSE "results"] :
                 k \in {1, 5, Len(ToolCategories)}, o \in SdkOutcomes}

\* run is called: it raises, returns an error object, or launches one
\* search_with_linkup per category (each of which returns at once without a
\* key and sends its request otherwise)
ToolRun(subject_json_string) ==
    /\ search_call.pc = "idle"
    /\ LET v == LinkupSearchTool_subject(subject_json_string)
           cats == tool_search_categories(v.subject)
           starts == [c \in DOMAIN cats |-> search_with_linkup_start(cats[c].query, "standard")]
           RECURSIVE requests_of(_)
           requests_of(c) ==
               IF c = 0 THEN <<>> ELSE requests_of(c - 1) \o starts[c].request
       IN /\ search_call' = [search_call EXCEPT
                !.pc = CASE v.kind = "raise" -> "raised"
                         [] v.kind = "error" -> "returned"
                         [] v.kind = "ok" -> "awaiting",
                !.fn = "LinkupSearchTool.run",
                !.query = subject_json_string,
                !.raised = (v.kind = "raise"),
                !.value = v.value]
          /\ tasks' = IF v.kind = "ok"
                      THEN [c \in DOMAIN cats |->
                               [category |-> cats[c].category, query |-> cats[c].query,
                                pc |-> IF starts[c].returned THEN "done" ELSE "awaiting",
                                response |-> <<>>,
                                result |-> Returned(starts[c].value)]]
                      ELSE tasks
          /\ sent' = IF v.kind = "ok" THEN sent \o requests_of(Len(cats)) ELSE sent
    /\ UNCHANGED env
    /\ UNCHANGED <<apiVars, batchVars>>

\* await asyncio.gather(*tasks) completes; the results are parsed, aggregated
\* and returned
ToolGather(outcomes) ==
    /\ search_call.pc = "awaiting"
    /\ search_call.fn = "LinkupSearchTool.run"
    /\ LET done == [c \in DOMAIN tasks |->
                       IF tasks[c].pc = "done"
                       THEN tasks[c]
                       ELSE [tasks[c] EXCEPT !.pc = "done",
                                             !.response = <<outcomes[c]>>,
                                             !.result = search_with_linkup_result(outcomes[c])]]
       IN /\ tasks' = done
          /\ search_call' = [search_call EXCEPT
                !.pc = "returned",
                !.value = tool_aggregate([c \in DOMAIN done |-> done[c].result.value])]
    /\ UNCHANGED <<env, sent>>
    /\ UNCHANGED <<apiVars, batchVars>>

InitTool ==
    /\ env \in {Environ(k) : k \in ApiKeys}
    /\ search_call = IdleSearchCall
    /\ tasks = <<>>
    /\ sent = <<>>
    /\ ApiIdle
    /\ BatchIdle

NextTool ==
    \/ \E arg \in ToolArgs : ToolRun(arg)
    \/ \E outcomes \in OutcomeVectors : ToolGather(outcomes)

SpecTool == InitTool /\ [][NextTool]_vars

----------------------------------------------------------------------------
(* Claims on LinkupSearchTool.run *)

InTool == search_call.fn = "LinkupSearchTool.run"

\* the argument is a JSON object, and what it holds under "subject"
ArgDoc == tool_json_loads(search_call.query)
ArgIsObject == ArgDoc # JInvalid /\ ArgDoc.t = "obj"
ArgSubjects == {m.v : m \in {x \in {ArgDoc.kv[i] : i \in DOMAIN ArgDoc.kv} : x.k = "subject"}}

\* the subject is missing or empty, or is no string, or is all whitespace
BadSubject(vs) ==
    \/ vs = {}
    \/ \E v \in vs : v.t # "str" \/ \A i \in DOMAIN v.s : v.s[i] = W(" ")

Refused ==
    /\ search_call.pc = "returned"
    /\ ErrorObject(search_call.value)
    /\ tasks = <<>>
    /\ sent = <<>>

\* C19: LinkupSearchTool.run validates its argument before it searches. A
\* JSON object whose "subject" is missing or empty, or whose subject is not a
\* string or is only whitespace, gets a JSON error object and no search is
\* launched; an argument that is not valid JSON is itself the subject: empty
\* or all whitespace it is refused the same way, otherwise every query is
\* built from it and one search per category is launched.
C19_ValidatesBeforeSearching ==
    InTool =>
        /\ (ArgIsObject /\ BadSubject(ArgSubjects)) => Refused
        /\ ArgDoc = JInvalid =>
              IF \A i \in DOMAIN search_call.query : search_call.query[i] = W(" ")
              THEN Refused
              ELSE /\ Len(tasks) = Len(ToolCategories)
                   /\ tasks[1].query = <<W("what is ")>> \o search_call.query \o <<W(" API OR ...")>>
        /\ tasks # <<>> =>
              \/ ArgDoc = JInvalid
              \/ ArgIsObject /\ ~BadSubject(ArgSubjects)

\* {"subject": " "} was refused with the key configured
C19_Witness ==
    /\ InTool
    /\ search_call.query = json_dumps(JObj(<<KV("subject", JStr(<<W(" ")>>))>>))
    /\ Refused
    /\ ~falsy(env.LINKUP_API_KEY)

----------------------------------------------------------------------------
(* Claims on the turn limit *)

Ran(r) == Done(r) /\ requests[r].outcome # <<>>

\* C20: every orchestrator run the endpoint starts is limited to 25 turns. A
\* request that passed validation is never stuck: while its run is under way
\* the run can end, and when it has ended the response is the final output
\* (200) or a 500. A run that needs more than 25 turns ends as a 500 that
\* reports the exceeded limit and carries no output of the run; a run that
\* needs 25 turns or fewer is not cut.
C20_TurnBound ==
    \A r \in Requests :
        /\ requests[r].run # <<>> => requests[r].run[1].max_turns = 25
        /\ requests[r].pc = "running" =>
              ENABLED (\E b \in RunBehaviours : RunCompletes(r, b))
        /\ Ran(r) =>
              /\ requests[r].response.status \in {200, 500}
              /\ requests[r].needed > 25 =>
                    /\ requests[r].response.status = 500
                    /\ Detail(requests[r].response, "details")
                          = {JStr(<<W("Max turns ("), W("25"), W(") exceeded")>>)}
              /\ (requests[r].needed <= 25 /\ requests[r].response.status = 500) =>
                    requests[r].outcome[1].exc.type # "MaxTurnsExceeded"
              /\ requests[r].response.status = 200 =>
                    /\ ~requests[r].outcome[1].raised
                    /\ requests[r].response.content = JStr(requests[r].outcome[1].final_output)

\* one run needed 26 turns and was answered 500, another needed exactly 25
\* and was answered 200
C20_Witness ==
    \E r1, r2 \in Requests :
        /\ Ran(r1) /\ requests[r1].needed = 26 /\ requests[r1].response.status = 500
        /\ Ran(r2) /\ requests[r2].needed = 25 /\ requests[r2].response.status = 200

\* C21: LinkupSearchTool.run never raises and returns a JSON object string
\* for every argument string, those that are valid JSON but no JSON object (a
\* bare string, an array, null) included.
C21_RunNeverRaises ==
    InTool =>
        /\ search_call.pc # "raised"
        /\ ~search_call.raised
        /\ search_call.pc = "returned" => IsJsonObject(search_call.value)

----------------------------------------------------------------------------
(* Claims on app.state *)

\* request r was routed to the search handler with a question that passes
\* the empty-question check
ValidRequest(r) ==
    /\ requests[r].handler = "run_search_agent"
    /\ ~Blank(requests[r].question)

\* once the server is serving, no step changes app.state
StateFrozenAfterStartup == startup_pc = "serving" => app_state' = app_state

SlotDecidesRequests ==
    \A r \in Requests : ValidRequest(r) =>
        IF app_state.orchestrator = None
        THEN /\ requests[r].pc = "done"
             /\ requests[r].response.status = 503
             /\ requests[r].run = <<>>
        ELSE /\ Len(requests[r].run) = 1
             /\ requests[r].run[1].agent = app_state.orchestrator

\* C22: app.state.orchestrator and app.state.agent are written during startup
\* only; handling a request never changes them. When orchestrator creation
\* failed at startup every later valid request gets 503 and no run, and when
\* it succeeded every run is on the object startup stored.
C22_SlotWrittenAtStartupOnly == []SlotDecidesRequests /\ [][StateFrozenAfterStartup]_vars

\* startup failed to create the orchestrator and two valid requests, one
\* after the other, were both answered 503
C22_Witness ==
    /\ startup_log.orchestrator = "error"
    /\ app_state.orchestrator = None
    /\ \A r \in Requests :
          ValidRequest(r) /\ requests[r].response.status = 503

----------------------------------------------------------------------------
(* Claims on the order of the checks *)

\* C23: in POST /search/ the empty-question check comes before the
\* orchestrator check: an empty or whitespace-only question is answered 400
\* whether or not the orchestrator is initialised, and a 503 is only ever the
\* answer to a question that is not blank, with the orchestrator None.
C23_EmptyCheckFirst ==
    \A r \in Requests : Done(r) =>
        /\ Blank(requests[r].question) => requests[r].response.status = 400
        /\ requests[r].response.status = 503 =>
              /\ ~Blank(requests[r].question)
              /\ app_state.orchestrator = None
        /\ requests[r].response.status = 400 => Blank(requests[r].question)

\* with the orchestrator None a whitespace-only question was answered 400
C23_Witness ==
    \E r \in Requests :
        /\ Done(r)
        /\ app_state.orchestrator = None
        /\ requests[r].question = <<" ", " ">>
        /\ requests[r].response.status = 400

----------------------------------------------------------------------------
(* Claims on the aggregated object *)

DeepResearchReturned == InDeepResearch /\ search_call.pc = "returned"

\* the entry the claim expects for category k: the text linkup_search_worker
\* makes of the answer to that category's own request
OwnEntry(k) ==
    KV(Categories[k],
       JObj(<<KV("search_result",
                 JStr(linkup_search_worker_result(tasks[k].response[1]).value))>>))

\* C24: the object deep_research_tool returns has exactly one entry per search
\* category, in the categories' order, and the entry of a category holds the
\* result of the request sent for that category's own query, in whatever
\* order the concurrent searches finished.
C24_EntriesMatchCategories ==
    DeepResearchReturned =>
        /\ \A k \in DOMAIN tasks :
              /\ tasks[k].category = Categories[k]
              /\ tasks[k].query = search_categories(search_call.query)[k].query
              /\ sent[k].q = tasks[k].query
        /\ search_call.value = json_dumps(JObj([k \in DOMAIN Categories |-> OwnEntry(k)]))
        /\ ObjectKeys(search_call.value) = {<<W(Categories[k])>> : k \in DOMAIN Categories}

\* the searches finished in the reverse of their launch order, the first
\* with a timeout and the last with an answer
C24_Witness ==
    /\ DeepResearchReturned
    /\ \A k \in DOMAIN tasks : tasks[k].order = Len(tasks) + 1 - k
    /\ tasks[1].response[1].kind = "timeout"
    /\ StartsWith(tasks[Len(tasks)].result.value, W("Answer: "))

\* the provider did not give category k's search a usable answer
ProviderFailure(k) ==
    \/ tasks[k].response[1].kind # "http"
    \/ tasks[k].response[1].status # 200
    \/ ~tasks[k].response[1].body.decodable

\* one of the "Error: ..." strings of linkup_search_worker
IsErrorText(value) ==
    /\ value # <<>>
    /\ value[1] \in {W("Error: Search request timed out"),
                     W("Error: Linkup API returned status "),
                     W("Error: Search failed - ")}

\* "error" occurs as a key at some depth of a JSON text
ErrorKeyAnywhere(text) ==
    \E p \in 1..(Len(text) - 1) : text[p] = S(<<W("error")>>) /\ text[p + 1] = P(":")

\* the text of category k's entry in the returned object
SearchResultEntry(k) ==
    <<S(<<W(Categories[k])>>), P(":"), P("{"), S(<<W("search_result")>>), P(":"),
      S(tasks[k].result.value), P("}")>>

HoldsEntry(text, entry) ==
    \E p \in 1..(Len(text) - Len(entry) + 1) : SubSeq(text, p, p + Len(entry) - 1) = entry

\* C25: a search that fails at the provider inside deep_research_tool is
\* recorded for its category as {"search_result": "Error: ..."}, because
\* linkup_search_worker returns the failure as a string; no search coroutine
\* raises on a provider failure, so no {"error": ...} entry is produced, and
\* the returned object has no top-level "error" key.
C25_FailuresAreSearchResults ==
    /\ \A k \in DOMAIN tasks :
          (InDeepResearch /\ tasks[k].pc = "done") => ~tasks[k].result.raised
    /\ DeepResearchReturned =>
          /\ \A k \in DOMAIN tasks :
                /\ ProviderFailure(k) => IsErrorText(tasks[k].result.value)
                /\ HoldsEntry(search_call.value, SearchResultEntry(k))
          /\ ~HasKey(search_call.value, "error")
          /\ ~ErrorKeyAnywhere(search_call.value)

\* every search failed at the provider, each in its own way, and the tool
\* returned
C25_Witness ==
    /\ DeepResearchReturned
    /\ \A k \in DOMAIN tasks : ProviderFailure(k)
    /\ tasks[1].response[1].kind = "timeout"
    /\ tasks[2].response[1].kind = "http"
    /\ tasks[3].response[1].kind = "error"

----------------------------------------------------------------------------
(* Claims on the startup steps *)

AgentStepFailed == startup_log.agent \in {"error", "not configured"}

\* C26: the two startup steps are isolated. When agent pre-configuration
\* fails, by an exception or by returning None, the creation of the
\* orchestrator is still attempted, once, and its result does not depend on
\* the agent step; app.state.orchestrator is at every moment either the
\* created orchestrator or None, and after startup it is the created one
\* exactly when the creation succeeded.
C26_StartupStepsIsolated ==
    /\ app_state.orchestrator \in {None, "Orchestrator"}
    /\ startup_pc # "halted"
    /\ (AgentStepFailed /\ startup_pc = "orchestrator") =>
          /\ createCalls = 0
          /\ \A o \in CreateOutcomes : ENABLED StartupOrchestrator(o)
    /\ startup_pc = "serving" =>
          /\ createCalls = 1
          /\ app_state.orchestrator = "Orchestrator" <=> startup_log.orchestrator = "created"
          /\ app_state.orchestrator = None <=> startup_log.orchestrator \in {"error", "returned None"}

\* agent pre-configuration gave None and the orchestrator was created all
\* the same
C26_Witness ==
    /\ startup_pc = "serving"
    /\ startup_log.agent = "not configured"
    /\ app_state.agent = None
    /\ app_state.orchestrator = "Orchestrator"
    /\ createCalls = 1

----------------------------------------------------------------------------
(* Claims on concurrent requests *)

\* the response the claim expects for a request whose run has ended: built
\* from the end of its own run
OwnResponse(r) ==
    LET o == requests[r].outcome[1]
    IN IF o.raised
       THEN /\ requests[r].response.status = 500
            /\ Detail(requests[r].response, "details") = {JStr(str(o.exc))}
       ELSE /\ requests[r].response.status = 200
            /\ requests[r].response.content = JStr(o.final_output)

SharedOrchestratorOwnRun ==
    \A r \in Requests :
        \* nothing holds a request back while others are being handled
        /\ (startup_pc = "serving" /\ requests[r].pc = "idle") =>
              \A req \in HttpRequests : ENABLED ReceiveRequest(r, req)
        \* a run in flight can end in every way, whatever became of the others
        /\ requests[r].pc = "running" =>
              \A b \in RunBehaviours : ENABLED RunCompletes(r, b)
        \* every run is on the one orchestrator and on its request's question
        /\ requests[r].run # <<>> =>
              /\ requests[r].run[1].agent = app_state.orchestrator
              /\ requests[r].run[1].input = requests[r].question
        /\ Ran(r) => OwnResponse(r)

\* a step of one request changes no other request
OneRequestPerStep ==
    \A r, s \in Requests : (r # s /\ requests'[r] # requests[r]) => requests'[s] = requests[s]

\* C27: requests handled at the same time share the one orchestrator created
\* at startup, with no locking: a request is taken and its run can end while
\* others are in flight; each response is the final output, or the error, of
\* the run started on that request's own question, and a 500 for one request
\* changes nothing of another in-flight request.
C27_ConcurrentRequests == []SharedOrchestratorOwnRun /\ [][OneRequestPerStep]_vars

\* one request has been answered 500 while another, on another question, is
\* still in flight
C27_Witness ==
    \E r, s \in Requests :
        /\ Ran(r) /\ requests[r].response.status = 500
        /\ requests[s].pc = "running"
        /\ requests[s].question # requests[r].question
        /\ requests[s].run[1].agent = requests[r].run[1].agent

============================================================================
